---- MODULE Spec2Model ----
(***************************************************************************)
(* Agentic Quality Monitor (src/main.py): a Streamlit script that scores   *)
(* one call transcript per click of "Analyze Call" and appends the result  *)
(* to st.session_state.history.                                            *)
(*                                                                         *)
(* Texts (transcript, call id, customer name) are sequences of one-        *)
(* character strings, so that whitespace collapsing, stripping, lowering   *)
(* and the `w in text` substring tests are computed character by           *)
(* character.  Generated messages are TLA+ strings built with \o.          *)
(* Scores are integers: every term of quality_score is a whole number, so  *)
(* round(score, 1) leaves it unchanged.  sentiment_confidence is kept in   *)
(* hundredths (0.5 is 50).                                                 *)
(***************************************************************************)
EXTENDS Integers, Sequences, FiniteSets, TLC

VARIABLES
  history,           \* st.session_state.history: sequence of rows
  thresholds,        \* history variable: slider value read by the run that made row i
  review_threshold,  \* the slider widget's value
  transcript_text,   \* the script's transcript_text, as the last run read it from the widgets
  now,               \* the wall clock, in whole seconds
  status,            \* what the last script run rendered: "idle", "error", "success"
  text,              \* the string held by the clean_text harness (SpecClean)
  passes             \* how many times the harness has applied clean_text

vars == <<history, thresholds, review_threshold, transcript_text, now, status, text, passes>>

-----------------------------------------------------------------------------
(* Bounds *)

MaxHistory == 2
MaxClock == 1
MaxStrLen == 4
MaxPasses == 2

-----------------------------------------------------------------------------
(* Keyword lists, src/main.py:11-19 *)

NEGATIVE_WORDS ==
  << <<"a","n","g","r","y">>,
     <<"f","r","u","s","t","r","a","t","e","d">>,
     <<"u","p","s","e","t">>,
     <<"b","a","d">>,
     <<"t","e","r","r","i","b","l","e">>,
     <<"a","w","f","u","l">>,
     <<"b","r","o","k","e","n">>,
     <<"d","a","m","a","g","e","d">>,
     <<"n","o","t"," ","w","o","r","k","i","n","g">>,
     <<"r","e","f","u","n","d">>,
     <<"c","a","n","c","e","l">>,
     <<"d","e","l","a","y">>,
     <<"i","s","s","u","e">>,
     <<"p","r","o","b","l","e","m">>,
     <<"c","o","m","p","l","a","i","n","t">> >>

POSITIVE_WORDS ==
  << <<"h","a","p","p","y">>,
     <<"s","a","t","i","s","f","i","e","d">>,
     <<"g","r","e","a","t">>,
     <<"g","o","o","d">>,
     <<"e","x","c","e","l","l","e","n","t">>,
     <<"a","w","e","s","o","m","e">>,
     <<"t","h","a","n","k","s">>,
     <<"t","h","a","n","k"," ","y","o","u">>,
     <<"l","o","v","e">>,
     <<"a","m","a","z","i","n","g">>,
     <<"p","e","r","f","e","c","t">> >>

-----------------------------------------------------------------------------
(* Character-level string primitives used by the source *)

UPPER ==
  <<"A","B","C","D","E","F","G","H","I","J","K","L","M",
    "N","O","P","Q","R","S","T","U","V","W","X","Y","Z">>

LOWER ==
  <<"a","b","c","d","e","f","g","h","i","j","k","l","m",
    "n","o","p","q","r","s","t","u","v","w","x","y","z">>

\* The ASCII characters matched by the regex class \s and removed by
\* str.strip() that a TLA+ string can hold.
IsSpace(c) == c \in {" ", "\t", "\n", "\r", "\f"}

\* A mis-cased conversion: swaps the case of a letter instead of lowering it.
SwapCaseChar(c) ==
  IF \E i \in DOMAIN UPPER : UPPER[i] = c
    THEN LOWER[CHOOSE i \in DOMAIN UPPER : UPPER[i] = c]
    ELSE IF \E i \in DOMAIN LOWER : LOWER[i] = c
           THEN UPPER[CHOOSE i \in DOMAIN LOWER : LOWER[i] = c]
           ELSE c

\* str.lower() on one character.
LowerChar(c) ==
  IF \E i \in DOMAIN UPPER : UPPER[i] = c
    THEN LOWER[CHOOSE i \in DOMAIN UPPER : UPPER[i] = c]
    ELSE c

\* The single element of a one-element set.  Below, x \in {e} binds x to the
\* value of e, so that e is computed once however often x is read.
The(S) == CHOOSE x \in S : TRUE

\* str.lower()
lower(s0) == The({ [i \in 1..Len(s) |-> LowerChar(s[i])] : s \in {s0} })

\* re.sub(r"\s+", " ", s): every maximal run of whitespace becomes one space.
sub_ws(s0) ==
  The({ The({ [k \in 1..Len(kept) |-> IF IsSpace(s[kept[k]]) THEN " " ELSE s[kept[k]]] :
              kept \in { SelectSeq([i \in 1..Len(s) |-> i],
                                   LAMBDA i : ~(IsSpace(s[i]) /\ i > 1 /\ IsSpace(s[i-1]))) } }) :
        s \in {s0} })

\* str.strip(): drop leading and trailing whitespace.
strip(s0) ==
  The({ IF \A i \in 1..Len(s) : IsSpace(s[i])
          THEN <<>>
          ELSE LET first == CHOOSE i \in 1..Len(s) :
                              ~IsSpace(s[i]) /\ \A j \in 1..(i-1) : IsSpace(s[j])
                   last  == CHOOSE i \in 1..Len(s) :
                              ~IsSpace(s[i]) /\ \A j \in (i+1)..Len(s) : IsSpace(s[j])
               IN  SubSeq(s, first, last) :
        s \in {s0} })

\* `w in t` for Python strings: w occurs in t as a contiguous substring.
Contains(w, t) ==
  \E i \in 1..(Len(t) - Len(w) + 1) : \A k \in 1..Len(w) : t[i + k - 1] = w[k]

\* sum(1 for w in words if w in t)
Hits(words, t0) ==
  The({ Cardinality({i \in DOMAIN words : Contains(words[i], t)}) : t \in {t0} })

Min(a, b) == IF a < b THEN a ELSE b
Max(a, b) == IF a > b THEN a ELSE b

DIGITS == <<"0","1","2","3","4","5","6","7","8","9">>

\* An integer in decimal, with a minus sign when negative.
RECURSIVE Decimal(_)
Decimal(n) ==
  IF n < 0 THEN <<"-">> \o Decimal(0 - n)
  ELSE IF n < 10 THEN <<DIGITS[n + 1]>>
  ELSE Decimal(n \div 10) \o <<DIGITS[(n % 10) + 1]>>

\* The format spec :03d - zero-padded to at least three digits.
Format03d(n) ==
  LET d == Decimal(n)
  IN  IF Len(d) >= 3 THEN d ELSE [i \in 1..(3 - Len(d)) |-> "0"] \o d

\* f-string interpolation of a text into a message.
RECURSIVE Str(_)
Str(chars) == IF chars = <<>> THEN "" ELSE Head(chars) \o Str(Tail(chars))

-----------------------------------------------------------------------------
(* The scoring functions *)

clean_text(t) ==
  IF t = <<>> THEN <<>> ELSE lower(strip(sub_ws(t)))

\* A variant classifier: NEGATIVE needs neg > 1.5 * pos, and the confidence is
\* taken from the winning side only.
analyze_sentiment_weighted(t0) ==
  LET t         == clean_text(t0)
      neg_count == Hits(NEGATIVE_WORDS, t)
      pos_count == Hits(POSITIVE_WORDS, t)
  IN  IF 2 * neg_count > 3 * pos_count
        THEN <<"NEGATIVE", Min(90, 60 + 10 * neg_count)>>
      ELSE IF pos_count > neg_count
        THEN <<"POSITIVE", Min(80, 50 + 10 * pos_count)>>
      ELSE <<"NEUTRAL", 50>>

analyze_sentiment(t0) ==
  LET t         == clean_text(t0)
      neg_count == Hits(NEGATIVE_WORDS, t)
      pos_count == Hits(POSITIVE_WORDS, t)
      label     == IF neg_count > pos_count THEN "NEGATIVE"
                   ELSE IF pos_count > neg_count THEN "POSITIVE"
                   ELSE "NEUTRAL"
      total     == neg_count + pos_count
      \* in hundredths: round(confidence, 2) of 0.5 + 0.1 * total, capped at 0.95
      confidence == IF total = 0 THEN 50 ELSE Min(95, 50 + 10 * total)
  IN  <<label, confidence>>

\* A variant scorer that forgets the final clamp.
quality_score_unclamped(t, sentiment) ==
  LET s1 == IF sentiment = "NEGATIVE" THEN 70 - 25
            ELSE IF sentiment = "POSITIVE" THEN 70 + 10
            ELSE 70
      s2 == IF Len(t) < 60 THEN s1 - 10
            ELSE IF Len(t) > 800 THEN s1 - 5
            ELSE s1
  IN  s2 - 5 * Hits(NEGATIVE_WORDS, lower(t))

\* A variant scorer with another constant set: base 60, -30 / +15 for the
\* sentiment, -15 below 50 characters.
quality_score_base60(t, sentiment) ==
  LET s1 == IF sentiment = "NEGATIVE" THEN 60 - 30
            ELSE IF sentiment = "POSITIVE" THEN 60 + 15
            ELSE 60
      s2 == IF Len(t) < 50 THEN s1 - 15
            ELSE IF Len(t) > 800 THEN s1 - 5
            ELSE s1
  IN  Max(0, Min(100, s2 - 5 * Hits(NEGATIVE_WORDS, lower(t))))

quality_score(t, sentiment) ==
  LET base     == 70
      s1       == IF sentiment = "NEGATIVE" THEN base - 25
                  ELSE IF sentiment = "POSITIVE" THEN base + 10
                  ELSE base
      L        == Len(t)
      s2       == IF L < 60 THEN s1 - 10
                  ELSE IF L > 800 THEN s1 - 5
                  ELSE s1
      neg_hits == Hits(NEGATIVE_WORDS, lower(t))
      s3       == s2 - 5 * neg_hits
  IN  Max(0, Min(100, s3))

\* How {score} prints: max(0, ...) hands back the int 0 when the score is not
\* positive, and the float otherwise.
ScoreStr(score) ==
  IF score = 0 THEN "0" ELSE Str(Decimal(score)) \o ".0"

\* The emoji in front of the severity and the bullet glyphs are written in ASCII.
short_supervisor_summary(call_id, sent, score, t) ==
  LET severity   == IF score < 40 THEN "Critical"
                    ELSE IF score < 70 THEN "Needs Attention" ELSE "OK"
      main_issue == IF sent = "NEGATIVE" THEN "Customer sounds upset"
                    ELSE "Customer is generally fine"
      action     == IF score < 40 THEN "Review call and consider escalation."
                    ELSE IF score < 70 THEN "Review call for coaching points."
                    ELSE "No immediate action required."
  IN  severity \o " | " \o Str(call_id)
        \o "\n* Sentiment: " \o sent
        \o "\n* Score: " \o ScoreStr(score) \o "/100"
        \o "\n* Notes: " \o main_issue
        \o "\n* Action: " \o action

short_customer_message(name0, sent) ==
  LET name == IF name0 = <<>> THEN "Customer" ELSE Str(name0)
  IN  IF sent = "NEGATIVE"
        THEN "Dear " \o name \o ", we are sorry for the trouble you faced. "
             \o "Our team is reviewing your case and will reach out with a solution as soon as possible."
      ELSE IF sent = "POSITIVE"
        THEN "Dear " \o name \o ", thank you for your kind feedback. "
             \o "We are glad to have you as our customer!"
      ELSE "Dear " \o name \o ", thank you for contacting us. "
             \o "We have noted your request and will make sure it is handled properly."

-----------------------------------------------------------------------------
(* The Streamlit script *)

TEXT_CHANNEL == "Text Transcript"
AUDIO_CHANNEL == "Audio (MP3/WAV/M4A)"

\* The default of the "Call ID" box: f"CALL-{len(history) + 1:03d}"
DefaultCallId(h) == <<"C","A","L","L","-">> \o Format03d(Len(h) + 1)

\* What the script holds in transcript_text after the input section ran.
input_section(channel, uploaded, typed) ==
  IF channel = TEXT_CHANNEL THEN typed
  ELSE IF uploaded THEN typed
  ELSE <<>>

\* A variant that scores the customer name along with the transcript.
analysed_text_with_name(call_id, customer_name, transcript) ==
  clean_text(customer_name \o <<" ">> \o transcript)

\* The text handed to the scoring stages.
analysed_text(call_id, customer_name, transcript) == clean_text(transcript)

\* A variant that also flags a score equal to the threshold.
needs_review_inclusive(score, threshold) == score <= threshold

\* needs_review = score < review_threshold
needs_review_of(score, threshold) == score < threshold

\* A variant that derives the flags from the score alone.
review_reason_low_score_only(needs_review, sent_label) ==
  IF needs_review THEN "LOW_SCORE" ELSE "OK"

\* ", ".join(reason) if reason else "OK"
review_reason_of(needs_review, sent_label) ==
  LET reason == (IF needs_review THEN <<"LOW_SCORE">> ELSE <<>>)
                  \o (IF sent_label = "NEGATIVE" THEN <<"NEG_SENTIMENT">> ELSE <<>>)
  IN  IF reason = <<>> THEN "OK"
      ELSE IF Len(reason) = 1 THEN reason[1]
      ELSE reason[1] \o ", " \o reason[2]

\* A variant that generates the two messages for flagged calls only.
make_row_gated(channel, call_id, customer_name, transcript, threshold, ts, clean, sent_label, sent_conf, score) ==
  LET needs_review == needs_review_of(score, threshold)
  IN  [ timestamp            |-> ts,
        call_id              |-> call_id,
        customer_name        |-> customer_name,
        channel              |-> channel,
        sentiment            |-> sent_label,
        sentiment_confidence |-> sent_conf,
        quality_score        |-> score,
        needs_review         |-> needs_review,
        review_reason        |-> review_reason_of(needs_review, sent_label),
        transcript           |-> strip(transcript),
        supervisor_summary   |-> IF needs_review
                                   THEN short_supervisor_summary(call_id, sent_label, score, clean)
                                   ELSE "",
        customer_message     |-> IF needs_review
                                   THEN short_customer_message(customer_name, sent_label)
                                   ELSE "" ]

\* The dictionary of lines 239-252, from the values the block computed.
make_row(channel, call_id, customer_name, transcript, threshold, ts, clean, sent_label, sent_conf, score) ==
  LET needs_review == needs_review_of(score, threshold)
  IN  [ timestamp            |-> ts,
        call_id              |-> call_id,
        customer_name        |-> customer_name,
        channel              |-> channel,
        sentiment            |-> sent_label,
        sentiment_confidence |-> sent_conf,
        quality_score        |-> score,
        needs_review         |-> needs_review,
        review_reason        |-> review_reason_of(needs_review, sent_label),
        transcript           |-> strip(transcript),
        supervisor_summary   |-> short_supervisor_summary(call_id, sent_label, score, clean),
        customer_message     |-> short_customer_message(customer_name, sent_label) ]

\* The row built by one run of the processing block.
new_row(channel, call_id, customer_name, transcript, threshold, ts) ==
  The({ The({ The({ make_row(channel, call_id, customer_name, transcript, threshold, ts,
                             clean, sent[1], sent[2], score) :
                    score \in { quality_score(clean, sent[1]) } }) :
              sent \in { analyze_sentiment(clean) } }) :
        clean \in { analysed_text(call_id, customer_name, transcript) } })

\* A variant that puts the new row first.
concat_front(h, r) == <<r>> \o h

\* pd.concat([history, new_row], ignore_index=True)
concat(h, r) == Append(h, r)

\* A variant of the run without the blank-transcript guard: every click appends.
RunButton_unguarded(channel, uploaded, call_id, customer_name, typed) ==
  LET transcript == input_section(channel, uploaded, typed)
  IN  /\ transcript_text' = transcript
      /\ history' = concat(history,
                new_row(channel, call_id, customer_name, transcript,
                        review_threshold, now))
      /\ thresholds' = Append(thresholds, review_threshold)
      /\ status' = "success"
      /\ UNCHANGED <<review_threshold, now, text, passes>>

\* One script run with run_button true.
RunButton(channel, uploaded, call_id, customer_name, typed) ==
  LET transcript == input_section(channel, uploaded, typed)
  IN  /\ transcript_text' = transcript
      /\ IF strip(transcript) = <<>>
           THEN /\ status' = "error"
                /\ UNCHANGED <<history, thresholds>>
           ELSE /\ history' = concat(history,
                       new_row(channel, call_id, customer_name, transcript,
                               review_threshold, now))
                /\ thresholds' = Append(thresholds, review_threshold)
                /\ status' = "success"
      /\ UNCHANGED <<review_threshold, now, text, passes>>

\* The user drags the slider: the script reruns with run_button false.
MoveSlider(v) ==
  /\ v # review_threshold
  /\ review_threshold' = v
  /\ status' = "idle"
  /\ UNCHANGED <<history, thresholds, transcript_text, now, text, passes>>

\* Any other widget interaction: the script reruns with run_button false.
Rerun ==
  /\ status # "idle"
  /\ status' = "idle"
  /\ UNCHANGED <<history, thresholds, review_threshold, transcript_text, now, text, passes>>

\* A second passes on the wall clock.
Tick ==
  /\ now < MaxClock
  /\ now' = now + 1
  /\ UNCHANGED <<history, thresholds, review_threshold, transcript_text, status, text, passes>>

-----------------------------------------------------------------------------
(* Spec: a session of the app *)

T_refund == <<" ","R","e","f","u","n","d","\n">>
T_thanks == <<"T","h","a","n","k","s","\t"," ","a","l","l">>
Transcripts == { <<>>, <<" ","\n">>, T_refund, T_thanks }

CustomerNames == { <<>>, <<"J","o","y"," ","G","o","o","d">> }
SliderStops == { 30, 70 }

Init ==
  /\ history = <<>>
  /\ thresholds = <<>>
  /\ review_threshold = 70
  /\ transcript_text = <<>>
  /\ now = 0
  /\ status = "idle"
  /\ text = <<>>
  /\ passes = 0

\* A click on "Analyze Call" with the Call ID box left at its default.  The
\* session is followed until the history holds MaxHistory rows.
Analyze ==
  \E customer_name \in CustomerNames, typed \in Transcripts :
    /\ Len(history) < MaxHistory \/ strip(typed) = <<>>
    /\ RunButton(TEXT_CHANNEL, FALSE, DefaultCallId(history), customer_name, typed)

Slide == \E v \in SliderStops : MoveSlider(v)

Next == Analyze \/ Slide \/ Rerun \/ Tick

Spec == Init /\ [][Next]_vars

-----------------------------------------------------------------------------
(* SpecScore: the first Analyze run of a session, for every slider value and  *)
(* a family of transcripts that covers the keyword counts and length bands.   *)

Opener == <<"C","a","l","l",":">>

\* Opener, then the first n negative and the first p positive keywords, each
\* on a line of its own.
Phrase(n, p) ==
  LET words == SubSeq(NEGATIVE_WORDS, 1, n) \o SubSeq(POSITIVE_WORDS, 1, p)
      line(i) == <<"\n", " ">> \o words[i]
      RECURSIVE upto(_)
      upto(i) == IF i = 0 THEN Opener ELSE upto(i - 1) \o line(i)
  IN  upto(Len(words))

\* t followed by filler so that the cleaned text has at least k characters.
PadTo(t, k) ==
  LET c == Len(clean_text(t))
  IN  IF c >= k THEN t ELSE t \o [i \in 1..(k - c) |-> "x"]

NegPrefixes == {0, 1, 2, 3, 5, Len(NEGATIVE_WORDS)}
PosPrefixes == {0, 1, 2, 3, 5, Len(POSITIVE_WORDS)}

ScoreTranscripts ==
  { Phrase(n, p) : n \in NegPrefixes, p \in PosPrefixes }
    \cup { PadTo(Phrase(n, p), k) : n \in {0, 1}, p \in {0, 1}, k \in {49, 50, 59, 60} }
    \cup { PadTo(Phrase(0, 0), 800), PadTo(Phrase(0, 0), 801),
           PadTo(Phrase(Len(NEGATIVE_WORDS), Len(POSITIVE_WORDS)), 801) }

InitScore ==
  /\ history = <<>>
  /\ thresholds = <<>>
  /\ review_threshold \in 0..100
  /\ transcript_text = <<>>
  /\ now = 0
  /\ status = "idle"
  /\ text = <<>>
  /\ passes = 0

FirstAnalyze ==
  /\ history = <<>>
  /\ \E typed \in ScoreTranscripts :
        RunButton(TEXT_CHANNEL, FALSE, DefaultCallId(history), <<>>, typed)

NextScore == FirstAnalyze

SpecScore == InitScore /\ [][NextScore]_vars

-----------------------------------------------------------------------------
(* SpecForm: the input section.  The first Analyze run of a session, for every *)
(* way of filling the form: either channel, with or without an uploaded       *)
(* recording, the Call ID typed or left at its default, blank and non-blank   *)
(* transcripts.                                                                *)

TypedCallIds == { <<"X","-","1">> }
Channels == { TEXT_CHANNEL, AUDIO_CHANNEL }

FormAnalyze ==
  /\ history = <<>>
  /\ \E channel \in Channels, uploaded \in BOOLEAN,
        call_id \in {DefaultCallId(history)} \cup TypedCallIds,
        customer_name \in CustomerNames, typed \in Transcripts :
        RunButton(channel, uploaded, call_id, customer_name, typed)

NextForm == FormAnalyze \/ Slide \/ Rerun \/ Tick

SpecForm == Init /\ [][NextForm]_vars

-----------------------------------------------------------------------------
(* SpecClean: clean_text applied repeatedly to every short string over an    *)
(* alphabet with both letter cases, space, tab and newline.                   *)

Alphabet == {"a", "B", " ", "\t", "\n"}
Strings == UNION { [1..k -> Alphabet] : k \in 0..MaxStrLen }

InitClean ==
  /\ history = <<>>
  /\ thresholds = <<>>
  /\ review_threshold = 70
  /\ transcript_text = <<>>
  /\ now = 0
  /\ status = "idle"
  /\ text \in Strings
  /\ passes = 0

CleanPass ==
  /\ passes < MaxPasses
  /\ text' = clean_text(text)
  /\ passes' = passes + 1
  /\ UNCHANGED <<history, thresholds, review_threshold, transcript_text, now, status>>

NextClean == CleanPass

SpecClean == InitClean /\ [][NextClean]_vars

-----------------------------------------------------------------------------
(* Properties *)

Rows == 1..Len(history)

\* Keyword counts of row i, recomputed from its stored transcript.
NegCount(i) == Hits(NEGATIVE_WORDS, clean_text(history[i].transcript))
PosCount(i) == Hits(POSITIVE_WORDS, clean_text(history[i].transcript))

Clamp(x) == Max(0, Min(100, x))

\* The last step was a click on "Analyze Call" (every other rerun renders no
\* message, and a clock tick changes now).
AnalyzeStep == status' # "idle" /\ now' = now

(* C1 as stated: messages are generated iff needs_review - a row that is not
   flagged has two empty messages, a flagged row has two non-empty ones. *)
C1_MessagesIffNeedsReview ==
  \A i \in Rows :
    /\ ~history[i].needs_review =>
         history[i].supervisor_summary = "" /\ history[i].customer_message = ""
    /\ history[i].needs_review =>
         history[i].supervisor_summary # "" /\ history[i].customer_message # ""

(* C1 amended: every row carries a non-empty supervisor summary and a non-empty
   customer message, whether or not it needs review. *)
C1_MessagesAlwaysGenerated ==
  \A i \in Rows :
    history[i].supervisor_summary # "" /\ history[i].customer_message # ""

C1_Witness ==
  \E i \in Rows :
    /\ ~history[i].needs_review
    /\ history[i].supervisor_summary # ""
    /\ history[i].customer_message # ""

(* C2 as stated: review_reason is the sentinel OK iff needs_review is false. *)
C2_OkIffNotNeedsReview ==
  \A i \in Rows : (history[i].review_reason = "OK") <=> ~history[i].needs_review

(* C2 amended: review_reason is OK iff needs_review is false and the sentiment
   is not NEGATIVE. *)
C2_OkIffNotFlaggedNorNegative ==
  \A i \in Rows :
    (history[i].review_reason = "OK")
      <=> (~history[i].needs_review /\ history[i].sentiment # "NEGATIVE")

C2_Witness ==
  \E i \in Rows :
    /\ ~history[i].needs_review
    /\ history[i].sentiment = "NEGATIVE"
    /\ history[i].review_reason = "NEG_SENTIMENT"

(* C3 as stated: a blank transcript is not an error - no run is rejected, and
   the row of a blank transcript is NEUTRAL with score 50 and needs review
   exactly when the threshold is above 50. *)
C3_BlankIsScoredNeutral50 ==
  /\ status # "error"
  /\ \A i \in Rows :
       history[i].transcript = <<>> =>
         /\ history[i].sentiment = "NEUTRAL"
         /\ history[i].quality_score = 50
         /\ history[i].needs_review = (thresholds[i] > 50)

(* C3 amended: an Analyze run whose transcript is empty or whitespace-only is
   rejected with an error and appends nothing; a run is rejected only for such
   a transcript. *)
C3_BlankIsRejected ==
  [][ AnalyzeStep =>
        /\ strip(transcript_text') = <<>> =>
             status' = "error" /\ history' = history
        /\ status' = "error" => strip(transcript_text') = <<>> ]_vars

C3_Witness ==
  /\ status = "error"
  /\ transcript_text # <<>>
  /\ strip(transcript_text) = <<>>
  /\ history = <<>>

(* C4: every row's quality_score lies within [0, 100]. *)
C4_ScoreInRange ==
  \A i \in Rows : history[i].quality_score >= 0 /\ history[i].quality_score <= 100

C4_Witness ==
  \E i \in Rows :
    /\ NegCount(i) = Len(NEGATIVE_WORDS)
    /\ PosCount(i) = Len(POSITIVE_WORDS)
    /\ history[i].quality_score = 0

(* C5: a row needs review iff its score is strictly below the threshold that
   was in force when the row was created, wherever the slider stands now. *)
C5_NeedsReviewIffBelowThreshold ==
  \A i \in Rows :
    history[i].needs_review <=> (history[i].quality_score < thresholds[i])

C5_Witness ==
  \E i \in Rows :
    /\ thresholds[i] # review_threshold
    /\ history[i].needs_review
    /\ ~(history[i].quality_score < review_threshold)

(* C6: the history is append-only - every step keeps the existing rows in
   place and unchanged, an accepted Analyze run appends exactly one row at the
   end, a rejected run and a slider move leave the history as it was. *)
C6_AppendOnly ==
  [][ /\ Len(history') >= Len(history)
      /\ Len(history') <= Len(history) + 1
      /\ SubSeq(history', 1, Len(history)) = history
      /\ (AnalyzeStep /\ status' = "success") => Len(history') = Len(history) + 1
      /\ (AnalyzeStep /\ status' = "error") => history' = history
      /\ review_threshold' # review_threshold => history' = history ]_vars

C6_Witness ==
  /\ Len(history) >= 2
  /\ history[1] # history[2]
  /\ status = "error"
  /\ review_threshold # thresholds[Len(history)]

\* Rows i and j come from the same transcript under the same threshold, with
\* different call ids.
SameCall(i, j) ==
  /\ i < j
  /\ history[i].transcript = history[j].transcript
  /\ thresholds[i] = thresholds[j]
  /\ history[i].call_id # history[j].call_id

SameVerdict(i, j) ==
  /\ history[i].sentiment = history[j].sentiment
  /\ history[i].sentiment_confidence = history[j].sentiment_confidence
  /\ history[i].quality_score = history[j].quality_score
  /\ history[i].needs_review = history[j].needs_review
  /\ history[i].review_reason = history[j].review_reason

(* C7 as stated: the same transcript processed twice under the same threshold
   with different call ids gives rows with identical sentiment, confidence,
   score, needs_review and flags, and with different timestamps. *)
C7_SameVerdictDistinctTimestamps ==
  \A i, j \in Rows :
    SameCall(i, j) =>
      SameVerdict(i, j) /\ history[i].timestamp # history[j].timestamp

(* C7 amended: the same transcript processed twice under the same threshold
   with different call ids (and any customer names) gives rows with identical
   sentiment, confidence, score, needs_review and flags; their timestamps need
   not differ (they are equal when both runs fall in the same clock second). *)
C7_SameVerdict ==
  \A i, j \in Rows : SameCall(i, j) => SameVerdict(i, j)

C7_Witness ==
  \E i, j \in Rows :
    /\ SameCall(i, j)
    /\ history[i].customer_name # history[j].customer_name
    /\ history[i].timestamp = history[j].timestamp

(* C8: clean_text is idempotent - once applied, applying it again returns the
   same string. *)
C8_CleanTextIdempotent ==
  passes >= 1 => clean_text(text) = text

C8_Witness ==
  /\ passes >= 2
  /\ Len(text) >= 3
  /\ \E i \in 1..Len(text) : text[i] = " "
  /\ \E i \in 1..Len(text) : text[i] = "b"

(* C9 as stated: NEGATIVE with confidence min(0.9, 0.6 + 0.1*neg) when
   neg > 1.5*pos; otherwise POSITIVE with min(0.8, 0.5 + 0.1*pos) when
   pos > neg; otherwise NEUTRAL with 0.5. *)
C9_WeightedClassifier ==
  \A i \in Rows :
    LET neg == NegCount(i)
        pos == PosCount(i)
    IN  IF 2 * neg > 3 * pos
          THEN /\ history[i].sentiment = "NEGATIVE"
               /\ history[i].sentiment_confidence = Min(90, 60 + 10 * neg)
        ELSE IF pos > neg
          THEN /\ history[i].sentiment = "POSITIVE"
               /\ history[i].sentiment_confidence = Min(80, 50 + 10 * pos)
        ELSE /\ history[i].sentiment = "NEUTRAL"
             /\ history[i].sentiment_confidence = 50

(* C9 amended: NEGATIVE when neg > pos, POSITIVE when pos > neg, NEUTRAL on a
   tie; the confidence is 0.5 when no keyword is present and otherwise
   min(0.95, 0.5 + 0.1*(neg + pos)), whatever the label. *)
C9_MajorityClassifier ==
  \A i \in Rows :
    LET neg == NegCount(i)
        pos == PosCount(i)
    IN  /\ history[i].sentiment =
             (IF neg > pos THEN "NEGATIVE"
              ELSE IF pos > neg THEN "POSITIVE" ELSE "NEUTRAL")
        /\ history[i].sentiment_confidence =
             (IF neg + pos = 0 THEN 50 ELSE Min(95, 50 + 10 * (neg + pos)))

C9_Witness ==
  \E i \in Rows :
    /\ NegCount(i) = 3
    /\ PosCount(i) = 2
    /\ history[i].sentiment = "NEGATIVE"
    /\ history[i].sentiment_confidence = 95

\* The complaint keywords of the claim: damage, broken, refund, cancel, wrong.
ComplaintWords ==
  << <<"d","a","m","a","g","e">>,
     <<"b","r","o","k","e","n">>,
     <<"r","e","f","u","n","d">>,
     <<"c","a","n","c","e","l">>,
     <<"w","r","o","n","g">> >>

(* C10 as stated: the score is the clamp of base 60, -30 / +15 / 0 for
   NEGATIVE / POSITIVE / NEUTRAL, -15 below 50 characters or -5 above 800,
   and -12 for each complaint keyword present. *)
C10_ScoreBase60 ==
  \A i \in Rows :
    LET t == clean_text(history[i].transcript)
        sentiment_term == IF history[i].sentiment = "NEGATIVE" THEN -30
                          ELSE IF history[i].sentiment = "POSITIVE" THEN 15 ELSE 0
        length_term    == IF Len(t) < 50 THEN -15
                          ELSE IF Len(t) > 800 THEN -5 ELSE 0
    IN  history[i].quality_score =
          Clamp(60 + sentiment_term + length_term - 12 * Hits(ComplaintWords, t))

(* C10 amended: the score is the clamp to [0, 100] of base 70, -25 / +10 / 0
   for NEGATIVE / POSITIVE / NEUTRAL, -10 below 60 characters or -5 above 800,
   and -5 for each of the fifteen negative keywords present, with no other
   terms. *)
C10_ScoreBase70 ==
  \A i \in Rows :
    LET t == clean_text(history[i].transcript)
        sentiment_term == IF history[i].sentiment = "NEGATIVE" THEN -25
                          ELSE IF history[i].sentiment = "POSITIVE" THEN 10 ELSE 0
        length_term    == IF Len(t) < 60 THEN -10
                          ELSE IF Len(t) > 800 THEN -5 ELSE 0
    IN  history[i].quality_score =
          Clamp(70 + sentiment_term + length_term - 5 * Hits(NEGATIVE_WORDS, t))

C10_Witness ==
  \E i \in Rows :
    /\ Len(clean_text(history[i].transcript)) = 59
    /\ history[i].sentiment = "POSITIVE"
    /\ NegCount(i) = 0
    /\ history[i].quality_score = 70

====
